---- MODULE Spec2Model ----
(***************************************************************************)
(* Model of src/client.rs: a JSON-RPC client handle (Client) shared by     *)
(* several threads.  Client::new, build_request, last_nonce and            *)
(* send_request are modelled step by step; the HTTP transport (hyper) and  *)
(* the JSON codec are the environment and choose their results.            *)
(***************************************************************************)
EXTENDS Integers, Sequences, FiniteSets, TLC

\* ------------------------------------------------------------------ bounds
NumThreads == 2
MaxBuilds == 2
MaxSends == 1
MaxReads == 1

Threads == 1..NumThreads

\* ------------------------------------------------------- program constants
LimbBits == 16
NumLimbs == 4
StatusOk == 200

\* a u64 is NumLimbs limbs of LimbBits bits, least significant first
LimbBase == 2 ^ LimbBits
Limbs == 1..NumLimbs
U64Of(k) == [i \in Limbs |-> IF i = 1 THEN k % LimbBase ELSE IF i = 2 THEN k \div LimbBase ELSE 0]
U64Max == [i \in Limbs |-> LimbBase - 1]
\* a < b and a <= b on u64: decided by the most significant limb that differs
U64Less(a, b) == \E i \in Limbs : a[i] < b[i] /\ \A j \in Limbs : j > i => a[j] = b[j]
U64Leq(a, b) == a = b \/ U64Less(a, b)

\* ------------------------------------------------------------- data values
None == <<>>
Some(x) == <<x>>

U64(n) == [t |-> "U64", v |-> n]
Null == [t |-> "Null", v |-> U64Of(0)]

Ok(v) == [tag |-> "Ok", val |-> v]
Err(e) == [tag |-> "Err", val |-> e]
NoRet == [tag |-> "None", val |-> [n |-> U64Of(0)]]
U64Ret(n) == [tag |-> "U64", val |-> [n |-> n]]
RequestRet(r) == [tag |-> "Request", val |-> r]
Panic(why) == [tag |-> "Panic", val |-> [why |-> why]]

\* error::Error variants used by client.rs
Hyper(cause) == [kind |-> "Hyper", cause |-> cause, status |-> 0]
Json(cause) == [kind |-> "Json", cause |-> cause, status |-> 0]
BadStatus(status) == [kind |-> "BadStatus", cause |-> "none", status |-> status]

\* ------------------------------------------------------------ input sets
Urls == {"localhost"}
Users == {None, Some("alice")}
Passes == {None, Some("secret")}
Methods == {"test"}
ParamSeqs == {<<>>, <<U64(U64Of(7))>>}
Statuses == {StatusOk, 500}
TransportCauses == {"refused", "dns"}

Member(k, v) == [k |-> k, v |-> v]
Text(ok, members) == [syntax_ok |-> ok, members |-> members]

BodyResult == Text(TRUE, <<Member("id", U64(U64Of(1))), Member("result", U64(U64Of(42))), Member("error", Null)>>)
BodyError == Text(TRUE, <<Member("error", U64(U64Of(5))), Member("id", U64(U64Of(9)))>>)
BodyNoId == Text(TRUE, <<Member("result", U64(U64Of(42)))>>)
BodyGarbage == Text(FALSE, <<>>)
Bodies == {BodyResult, BodyError, BodyNoId, BodyGarbage}

\* Requests handed to send_request: Request values as build_request makes them
SendRequests == {[method |-> "test", params |-> <<>>, id |-> U64(U64Of(1))],
                 [method |-> "test", params |-> <<U64(U64Of(7))>>, id |-> U64(U64Of(2))]}

NoStream == [status |-> 0, body |-> BodyGarbage]
NoPost == [url |-> "", headers |-> {}, body |-> BodyGarbage]
NoRequest == [method |-> "", params |-> <<>>, id |-> Null]

VARIABLES
  debug_assertions, \* build profile: is debug_assert! compiled in
  cstate,           \* "unbuilt" | "live" | "panicked" (Client::new panicked)
  url, user, pass,  \* Client fields
  nonce,            \* the u64 inside Arc<Mutex<u64>>
  lock,             \* holder of the mutex, 0 when free
  poisoned,         \* the mutex is poisoned: a thread panicked holding it
  pc,               \* position of each thread
  br,               \* build_request arguments of the call under way
  sr,               \* send_request locals of the call under way
  last,             \* the call that ended in the step just taken, with its result
  returned,         \* ids of the Requests returned so far, in return order
  lastBuilt,        \* the build_request call that returned most recently
  nBuild, nSend, nRead

vars == <<debug_assertions, cstate, url, user, pass, nonce, lock, poisoned, pc,
          br, sr, last, returned, lastBuilt, nBuild, nSend, nRead>>

config == <<debug_assertions, cstate, url, user, pass>>
counters == <<nBuild, nSend, nRead>>

SrInit == [req |-> NoRequest, enc |-> "none", wire |-> BodyGarbage, post |-> NoPost, posts |-> 0,
           net |-> "none", cause |-> "none", stream |-> NoStream,
           checked |-> FALSE, decoded |-> FALSE]
LnInit == [quiescent |-> FALSE, finished |-> 0]
BrInit == [name |-> "", params |-> <<>>]
NoBuilt == [args |-> BrInit, req |-> NoRequest]
NoCall == [op |-> "none", ret |-> NoRet, sr |-> SrInit, ln |-> LnInit,
           args |-> BrInit, prev |-> NoBuilt]
Ended(o, r, s, l) == [NoCall EXCEPT !.op = o, !.ret = r, !.sr = s, !.ln = l]

Init ==
  /\ debug_assertions \in BOOLEAN
  /\ cstate = "unbuilt"
  /\ url = ""
  /\ user = None
  /\ pass = None
  /\ nonce = U64Of(0)
  /\ lock = 0
  /\ poisoned = FALSE
  /\ pc = [t \in Threads |-> "idle"]
  /\ br = [t \in Threads |-> BrInit]
  /\ sr = [t \in Threads |-> SrInit]
  /\ last = NoCall
  /\ returned = <<>>
  /\ lastBuilt = NoBuilt
  /\ nBuild = 0
  /\ nSend = 0
  /\ nRead = 0

\* ------------------------------------------------------------- Client::new
\* debug_assert!(pass.is_none() || user.is_some())
NewPrecondition(u, p) == p = None \/ u # None

New(l, u, p) ==
  /\ cstate = "unbuilt"
  /\ IF debug_assertions /\ ~NewPrecondition(u, p)
       THEN /\ cstate' = "panicked"
            /\ UNCHANGED <<url, user, pass, nonce>>
       ELSE /\ cstate' = "live"
            /\ url' = l
            /\ user' = u
            /\ pass' = p
            /\ nonce' = U64Of(0)
  /\ last' = NoCall
  /\ UNCHANGED <<debug_assertions, lock, poisoned, pc, br, sr, returned, counters, lastBuilt>>

\* ------------------------------------------------------------------- mutex
MutexAcquirableBroken(t) == TRUE
MutexAcquirable(t) == lock = 0

\* ----------------------------------------------------- Client::build_request
\* n + 1 modulo 2^64: add one to the lowest limb and carry
RECURSIVE IncrFrom(_, _)
IncrFrom(n, i) ==
  IF i > NumLimbs THEN n
  ELSE IF n[i] = LimbBase - 1 THEN IncrFrom([n EXCEPT ![i] = 0], i + 1)
  ELSE [n EXCEPT ![i] = n[i] + 1]
\* variant: the increment is left out
IncrForgotten(n) == n

Incr(n) == IncrFrom(n, 1)

BuildRequestCall(t, name, params) ==
  /\ cstate = "live"
  /\ pc[t] = "idle"
  /\ nBuild < MaxBuilds
  /\ nBuild' = nBuild + 1
  /\ pc' = [pc EXCEPT ![t] = "br_lock"]
  /\ br' = [br EXCEPT ![t] = [name |-> name, params |-> params]]
  /\ last' = NoCall
  /\ UNCHANGED <<config, nonce, lock, poisoned, sr, returned, nSend, nRead, lastBuilt>>

\* self.nonce.lock().unwrap(): a poisoned mutex makes unwrap panic
BuildRequestLock(t) ==
  /\ pc[t] = "br_lock"
  /\ MutexAcquirable(t)
  /\ IF poisoned
       THEN /\ pc' = [pc EXCEPT ![t] = "panicked"]
            /\ last' = Ended("build_request", Panic("poisoned"), SrInit, LnInit)
            /\ br' = [br EXCEPT ![t] = BrInit]
            /\ UNCHANGED lock
       ELSE /\ lock' = t
            /\ pc' = [pc EXCEPT ![t] = "br_incr"]
            /\ last' = NoCall
            /\ UNCHANGED <<br>>
  /\ UNCHANGED <<config, nonce, poisoned, sr, returned, counters, lastBuilt>>

\* *nonce += 1: with overflow checks (the debug profile) an overflow panics
\* while the guard is held, which poisons the mutex; otherwise it wraps
BuildRequestIncr(t) ==
  /\ pc[t] = "br_incr"
  /\ IF debug_assertions /\ nonce = U64Max
       THEN /\ pc' = [pc EXCEPT ![t] = "panicked"]
            /\ last' = Ended("build_request", Panic("overflow"), SrInit, LnInit)
            /\ br' = [br EXCEPT ![t] = BrInit]
            /\ poisoned' = TRUE
            /\ lock' = 0
            /\ UNCHANGED nonce
       ELSE /\ nonce' = Incr(nonce)
            /\ pc' = [pc EXCEPT ![t] = "br_ret"]
            /\ last' = NoCall
            /\ UNCHANGED <<lock, poisoned, br>>
  /\ UNCHANGED <<config, sr, returned, counters, lastBuilt>>

\* variant: the id is a fixed value instead of the counter
MakeRequestFixedId(name, params, n) ==
  [method |-> name, params |-> params, id |-> U64(U64Of(1))]

\* variant: the parameters are not carried into the Request
MakeRequestDropsParams(name, params, n) ==
  [method |-> name, params |-> <<>>, id |-> U64(n)]

\* Request { method: name, params: params, id: JsonValue::U64(*nonce) }
MakeRequest(name, params, n) == [method |-> name, params |-> params, id |-> U64(n)]

BuildRequestReturn(t) ==
  /\ pc[t] = "br_ret"
  /\ LET r == MakeRequest(br[t].name, br[t].params, nonce) IN
       /\ last' = [Ended("build_request", RequestRet(r), SrInit, LnInit)
                     EXCEPT !.args = br[t], !.prev = lastBuilt]
       /\ lastBuilt' = [args |-> br[t], req |-> r]
       /\ returned' = Append(returned, nonce)
  /\ br' = [br EXCEPT ![t] = BrInit]
  /\ lock' = 0
  /\ pc' = [pc EXCEPT ![t] = "idle"]
  /\ UNCHANGED <<config, nonce, poisoned, sr, counters>>

\* -------------------------------------------------------- Client::last_nonce
BuildInProgress == \E u \in Threads : pc[u] \in {"br_lock", "br_incr", "br_ret"}

LastNonceCall(t) ==
  /\ cstate = "live"
  /\ pc[t] = "idle"
  /\ nRead < MaxReads
  /\ nRead' = nRead + 1
  /\ pc' = [pc EXCEPT ![t] = "ln_lock"]
  /\ last' = NoCall
  /\ UNCHANGED <<config, nonce, lock, poisoned, br, sr, returned, nBuild, nSend, lastBuilt>>

LastNonceLock(t) ==
  /\ pc[t] = "ln_lock"
  /\ MutexAcquirable(t)
  /\ IF poisoned
       THEN /\ pc' = [pc EXCEPT ![t] = "panicked"]
            /\ last' = Ended("last_nonce", Panic("poisoned"), SrInit, LnInit)
            /\ UNCHANGED lock
       ELSE /\ lock' = t
            /\ pc' = [pc EXCEPT ![t] = "ln_read"]
            /\ last' = NoCall
  /\ UNCHANGED <<config, nonce, poisoned, br, sr, returned, counters, lastBuilt>>

\* variant: the accessor hands out the next nonce, advancing the counter
LastNonceReadBumps(t) ==
  /\ pc[t] = "ln_read"
  /\ nonce' = Incr(nonce)
  /\ last' = Ended("last_nonce", U64Ret(Incr(nonce)), SrInit,
                    [quiescent |-> ~BuildInProgress, finished |-> Len(returned)])
  /\ lock' = 0
  /\ pc' = [pc EXCEPT ![t] = "idle"]
  /\ UNCHANGED <<config, poisoned, br, sr, returned, counters, lastBuilt>>

\* variant: the accessor takes the value out of the mutex, leaving 0 behind
LastNonceReadResets(t) ==
  /\ pc[t] = "ln_read"
  /\ nonce' = U64Of(0)
  /\ last' = Ended("last_nonce", U64Ret(nonce), SrInit,
                    [quiescent |-> ~BuildInProgress, finished |-> Len(returned)])
  /\ lock' = 0
  /\ pc' = [pc EXCEPT ![t] = "idle"]
  /\ UNCHANGED <<config, poisoned, br, sr, returned, counters, lastBuilt>>

\* *self.nonce.lock().unwrap(): copy the value out, drop the guard
LastNonceRead(t) ==
  /\ pc[t] = "ln_read"
  /\ last' = Ended("last_nonce", U64Ret(nonce), SrInit,
                    [quiescent |-> ~BuildInProgress, finished |-> Len(returned)])
  /\ lock' = 0
  /\ pc' = [pc EXCEPT ![t] = "idle"]
  /\ UNCHANGED <<config, nonce, poisoned, br, sr, returned, counters, lastBuilt>>

\* ------------------------------------------------------ Client::send_request
\* json::to_string(&request): the codec reports success or failure
to_string(r, codecOk) ==
  IF codecOk
    THEN Ok(Text(TRUE, <<Member("method", [t |-> "Str", v |-> r.method]),
                         Member("params", [t |-> "Array", v |-> r.params]),
                         Member("id", r.id)>>))
    ELSE Err(Json("encode"))

\* variant: credentials are attached only when a password is configured too
BuildHeadersNeedsPass(u, p) ==
  IF u # None /\ p # None
    THEN {[name |-> "Authorization", scheme |-> "Basic", username |-> u[1], password |-> p]}
    ELSE {}

\* Headers::new(); if let Some(ref user) = self.user { headers.set(Authorization(Basic{..})) }
BuildHeaders(u, p) ==
  IF u # None
    THEN {[name |-> "Authorization", scheme |-> "Basic", username |-> u[1], password |-> p]}
    ELSE {}

\* self.client.post(&self.url).headers(headers).body(&request)
Post(wire) == [url |-> url, headers |-> BuildHeaders(user, pass), body |-> wire]

\* variant: the nonce mutex is taken for the call and kept across the POST
SendRequestCallHoldingLock(t, r, codecOk) ==
  /\ cstate = "live"
  /\ pc[t] = "idle"
  /\ nSend < MaxSends
  /\ nSend' = nSend + 1
  /\ lock = 0
  /\ LET e == to_string(r, codecOk) IN
       IF e.tag = "Ok"
         THEN /\ sr' = [sr EXCEPT ![t] = [SrInit EXCEPT !.req = r, !.enc = "ok", !.wire = e.val,
                                                      !.post = Post(e.val), !.posts = 1]]
              /\ pc' = [pc EXCEPT ![t] = "sr_wait"]
              /\ lock' = t
              /\ last' = NoCall
         ELSE /\ last' = Ended("send_request", Panic("unwrap"),
                               [SrInit EXCEPT !.req = r, !.enc = "failed"], LnInit)
              /\ pc' = [pc EXCEPT ![t] = "panicked"]
              /\ UNCHANGED <<sr, lock>>
  /\ UNCHANGED <<config, nonce, poisoned, br, returned, nBuild, nRead, lastBuilt>>

\* variant: every send takes a fresh nonce and stamps it into the request
SendRequestCallStampsNonce(t, r, codecOk) ==
  /\ cstate = "live"
  /\ pc[t] = "idle"
  /\ nSend < MaxSends
  /\ nSend' = nSend + 1
  /\ nonce' = Incr(nonce)
  /\ LET e == to_string([r EXCEPT !.id = U64(Incr(nonce))], codecOk) IN
       IF e.tag = "Ok"
         THEN /\ sr' = [sr EXCEPT ![t] = [SrInit EXCEPT !.req = r, !.enc = "ok", !.wire = e.val,
                                                      !.post = Post(e.val), !.posts = 1]]
              /\ pc' = [pc EXCEPT ![t] = "sr_wait"]
              /\ last' = NoCall
         ELSE /\ last' = Ended("send_request", Panic("unwrap"),
                               [SrInit EXCEPT !.req = r, !.enc = "failed"], LnInit)
              /\ pc' = [pc EXCEPT ![t] = "panicked"]
              /\ UNCHANGED sr
  /\ UNCHANGED <<config, lock, poisoned, br, returned, nBuild, nRead, lastBuilt>>

\* send_request up to the blocking request.send(): serialize (unwrap panics on
\* failure), build the headers, issue the POST
SendRequestCall(t, r, codecOk) ==
  /\ cstate = "live"
  /\ pc[t] = "idle"
  /\ nSend < MaxSends
  /\ nSend' = nSend + 1
  /\ LET e == to_string(r, codecOk) IN
       IF e.tag = "Ok"
         THEN /\ sr' = [sr EXCEPT ![t] = [SrInit EXCEPT !.req = r, !.enc = "ok", !.wire = e.val,
                                                      !.post = Post(e.val),
                                                      !.posts = SrInit.posts + 1]]
              /\ pc' = [pc EXCEPT ![t] = "sr_wait"]
              /\ last' = NoCall
         ELSE /\ last' = Ended("send_request", Panic("unwrap"),
                               [SrInit EXCEPT !.req = r, !.enc = "failed"], LnInit)
              /\ pc' = [pc EXCEPT ![t] = "panicked"]
              /\ UNCHANGED sr
  /\ UNCHANGED <<config, nonce, lock, poisoned, br, returned, nBuild, nRead, lastBuilt>>

\* variant: without the early return the status of an absent reply is examined
TransportOutcomeFallsThrough(cause) ==
  [ret |-> Err(BadStatus(0)), checked |-> TRUE, decoded |-> FALSE]

\* try!(request.send().map_err(Error::Hyper)) on Err
TransportOutcome(cause) == [ret |-> Err(Hyper(cause)), checked |-> FALSE, decoded |-> FALSE]

HttpFail(t, cause) ==
  /\ pc[t] = "sr_wait"
  /\ LET o == TransportOutcome(cause) IN
       last' = Ended("send_request", o.ret,
                     [sr[t] EXCEPT !.net = "failed", !.cause = cause, !.checked = o.checked,
                                   !.decoded = o.decoded], LnInit)
  /\ sr' = [sr EXCEPT ![t] = SrInit]
  /\ pc' = [pc EXCEPT ![t] = "idle"]
  /\ UNCHANGED <<config, nonce, lock, poisoned, br, returned, counters, lastBuilt>>

\* json::de::from_reader(stream) into a Response
HasMember(ms, k) == \E i \in 1..Len(ms) : ms[i].k = k
GetMember(ms, k) == ms[CHOOSE i \in 1..Len(ms) : ms[i].k = k].v
OptMember(ms, k) == IF HasMember(ms, k) /\ GetMember(ms, k) # Null THEN Some(GetMember(ms, k)) ELSE None

from_reader(body) ==
  IF ~body.syntax_ok THEN Err("syntax")
  ELSE IF ~HasMember(body.members, "id") THEN Err("missing field")
  ELSE Ok([id |-> GetMember(body.members, "id"),
           result |-> OptMember(body.members, "result"),
           error |-> OptMember(body.members, "error")])

map_err_Json(res) == IF res.tag = "Err" THEN Err(Json(res.val)) ELSE res

\* variant: the body is decoded without looking at the status
SendOutcomeNoStatusCheck(stream) ==
  [ret |-> map_err_Json(from_reader(stream.body)), checked |-> FALSE, decoded |-> TRUE]

\* variant: a body that fails to decode is reported as a bad status
SendOutcomeHidesDecodeError(stream) ==
  IF stream.status = StatusOk /\ from_reader(stream.body).tag = "Ok"
    THEN [ret |-> from_reader(stream.body), checked |-> TRUE, decoded |-> TRUE]
    ELSE [ret |-> Err(BadStatus(stream.status)), checked |-> TRUE,
          decoded |-> stream.status = StatusOk]

\* variant: the decoded result is dropped from the Response handed back
SendOutcomeDropsResult(stream) ==
  IF stream.status = StatusOk
    THEN LET d == from_reader(stream.body) IN
         [ret |-> IF d.tag = "Ok" THEN Ok([d.val EXCEPT !.result = None]) ELSE map_err_Json(d),
          checked |-> TRUE, decoded |-> TRUE]
    ELSE [ret |-> Err(BadStatus(stream.status)), checked |-> TRUE, decoded |-> FALSE]

\* if stream.status == StatusCode::Ok { from_reader(..).map_err(Error::Json) }
\* else { Err(Error::BadStatus(stream.status)) }
SendOutcome(stream) ==
  IF stream.status = StatusOk
    THEN [ret |-> map_err_Json(from_reader(stream.body)), checked |-> TRUE, decoded |-> TRUE]
    ELSE [ret |-> Err(BadStatus(stream.status)), checked |-> TRUE, decoded |-> FALSE]

\* variant: a reply whose id is not the request's id is rejected
HttpReplyChecksId(t, status, body) ==
  /\ pc[t] = "sr_wait"
  /\ LET stream == [status |-> status, body |-> body]
         o == SendOutcome(stream)
         r == IF o.ret.tag = "Ok" /\ o.ret.val.id # sr[t].req.id
                THEN Err(Json("nonce mismatch")) ELSE o.ret IN
       last' = Ended("send_request", r,
                     [sr[t] EXCEPT !.net = "replied", !.stream = stream,
                                   !.checked = o.checked, !.decoded = o.decoded], LnInit)
  /\ sr' = [sr EXCEPT ![t] = SrInit]
  /\ pc' = [pc EXCEPT ![t] = "idle"]
  /\ UNCHANGED <<config, nonce, lock, poisoned, br, returned, counters, lastBuilt>>

\* request.send() returned a reply: status test, decoding, return (TODO check
\* nonces match: the ids are not compared)
HttpReply(t, status, body) ==
  /\ pc[t] = "sr_wait"
  /\ LET stream == [status |-> status, body |-> body]
         o == SendOutcome(stream) IN
       last' = Ended("send_request", o.ret,
                     [sr[t] EXCEPT !.net = "replied", !.stream = stream,
                                   !.checked = o.checked, !.decoded = o.decoded], LnInit)
  /\ sr' = [sr EXCEPT ![t] = SrInit]
  /\ pc' = [pc EXCEPT ![t] = "idle"]
  /\ UNCHANGED <<config, nonce, lock, poisoned, br, returned, counters, lastBuilt>>

\* -------------------------------------------------------------------- Next
Next ==
  \/ \E l \in Urls, u \in Users, p \in Passes : New(l, u, p)
  \/ \E t \in Threads, name \in Methods, params \in ParamSeqs : BuildRequestCall(t, name, params)
  \/ \E t \in Threads : BuildRequestLock(t)
  \/ \E t \in Threads : BuildRequestIncr(t)
  \/ \E t \in Threads : BuildRequestReturn(t)
  \/ \E t \in Threads : LastNonceCall(t)
  \/ \E t \in Threads : LastNonceLock(t)
  \/ \E t \in Threads : LastNonceRead(t)
  \/ \E t \in Threads, r \in SendRequests, codecOk \in BOOLEAN : SendRequestCall(t, r, codecOk)
  \/ \E t \in Threads, cause \in TransportCauses : HttpFail(t, cause)
  \/ \E t \in Threads, status \in Statuses, body \in Bodies : HttpReply(t, status, body)

Spec == Init /\ [][Next]_vars

\* ------------------------------------------------- a Client near overflow
\* A live Client whose counter has reached the largest u64, as it is after
\* 2^64 - 1 build_request calls; returned and lastBuilt start empty here and
\* record the calls from this point on.
InitWrap ==
  /\ debug_assertions \in BOOLEAN
  /\ cstate = "live"
  /\ url \in Urls
  /\ user \in Users
  /\ pass \in Passes
  /\ debug_assertions => NewPrecondition(user, pass)
  /\ nonce = U64Max
  /\ lock = 0
  /\ poisoned = FALSE
  /\ pc = [t \in Threads |-> "idle"]
  /\ br = [t \in Threads |-> BrInit]
  /\ sr = [t \in Threads |-> SrInit]
  /\ last = NoCall
  /\ returned = <<>>
  /\ lastBuilt = NoBuilt
  /\ nBuild = 0
  /\ nSend = 0
  /\ nRead = 0

NextWrap ==
  \/ \E t \in Threads, name \in Methods, params \in ParamSeqs : BuildRequestCall(t, name, params)
  \/ \E t \in Threads : BuildRequestLock(t)
  \/ \E t \in Threads : BuildRequestIncr(t)
  \/ \E t \in Threads : BuildRequestReturn(t)
  \/ \E t \in Threads : LastNonceCall(t)
  \/ \E t \in Threads : LastNonceLock(t)
  \/ \E t \in Threads : LastNonceRead(t)
  \/ \E t \in Threads, r \in SendRequests, codecOk \in BOOLEAN : SendRequestCall(t, r, codecOk)
  \/ \E t \in Threads, cause \in TransportCauses : HttpFail(t, cause)
  \/ \E t \in Threads, status \in Statuses, body \in Bodies : HttpReply(t, status, body)

SpecWrap == InitWrap /\ [][NextWrap]_vars

\* ------------------------------------------------------------ observations
\* the step that ends a call records it in `last`, so a property of `last`
\* in all reachable states is a property of every call that ended
SendEnded == last.op = "send_request"
SendReturned == SendEnded /\ last.ret.tag # "Panic"
Replied == SendReturned /\ last.sr.net = "replied"
ReturnedIds == {returned[i] : i \in 1..Len(returned)}

\* C1: the ids returned by the N build_request calls finished so far are
\* exactly 1..N without repeats, and a last_nonce call that reads the counter
\* while no build_request is under way returns N (0 on a fresh Client).
C1_IdsAreOneToN ==
  /\ ReturnedIds = {U64Of(k) : k \in 1..Len(returned)}
  /\ Cardinality(ReturnedIds) = Len(returned)
  /\ (last.op = "last_nonce" /\ last.ln.quiescent)
       => last.ret = U64Ret(U64Of(last.ln.finished))

C1_Witness ==
  /\ Len(returned) = 2
  /\ last.op = "last_nonce"
  /\ last.ln.quiescent
  /\ last.ln.finished = 2
  /\ last.ret = U64Ret(U64Of(2))

\* C2: every Client that exists has a user whenever it has a pass, because
\* Client::new with user = None and pass = Some(_) fails at construction.
C2_PassImpliesUser ==
  cstate = "live" => (pass = None \/ user # None)

\* C3: a send_request whose Request fails to serialize returns an error of a
\* kind of its own, different from the transport, status and decode kinds.
C3_EncodeFailureIsReturned ==
  (SendEnded /\ last.sr.enc = "failed")
    => /\ last.ret.tag = "Err"
       /\ last.ret.val.kind \notin {"Hyper", "BadStatus", "Json"}

\* C4: a reply with a status other than 200 makes send_request return
\* Err(BadStatus(status)) with the observed status, whatever the body, and
\* the body is not decoded.
C4_BadStatusCarriesStatus ==
  (Replied /\ last.sr.stream.status # StatusOk)
    => /\ last.ret = Err(BadStatus(last.sr.stream.status))
       /\ ~last.sr.decoded

C4_Witness ==
  /\ Replied
  /\ last.sr.stream = [status |-> 500, body |-> BodyResult]
  /\ last.ret = Err(BadStatus(500))

\* C5: a 200 reply whose body does not decode makes send_request return
\* Err(Json(cause)) with the codec's failure, never Ok and never a status or
\* transport error.
C5_DecodeFailureIsJsonError ==
  (Replied /\ last.sr.stream.status = StatusOk
           /\ last.sr.stream.body \in {BodyGarbage, BodyNoId})
    => /\ last.ret.tag = "Err"
       /\ last.ret.val.kind = "Json"
       /\ last.ret.val.cause = (IF last.sr.stream.body = BodyGarbage
                                  THEN "syntax" ELSE "missing field")

C5_Witness ==
  /\ Replied
  /\ last.sr.stream = [status |-> StatusOk, body |-> BodyGarbage]
  /\ last.ret = Err(Json("syntax"))

\* C6: when the HTTP call fails without a reply, send_request returns
\* Err(Hyper(cause)) with the transport's cause, and neither the status check
\* nor the decoding of a body takes place.
C6_TransportFailureIsHyperError ==
  (SendReturned /\ last.sr.net = "failed")
    => /\ last.ret = Err(Hyper(last.sr.cause))
       /\ ~last.sr.checked
       /\ ~last.sr.decoded

C6_Witness ==
  /\ SendReturned
  /\ last.sr.net = "failed"
  /\ last.sr.posts = 1
  /\ last.ret = Err(Hyper("dns"))

\* C7: a 200 reply with a decodable body makes send_request return Ok with
\* the Response whose id, result and error are those of the body.
C7_OkCarriesDecodedResponse ==
  (Replied /\ last.sr.stream.status = StatusOk)
    => /\ last.sr.stream.body = BodyResult
            => last.ret = Ok([id |-> U64(U64Of(1)), result |-> Some(U64(U64Of(42))),
                              error |-> None])
       /\ last.sr.stream.body = BodyError
            => last.ret = Ok([id |-> U64(U64Of(9)), result |-> None,
                              error |-> Some(U64(U64Of(5)))])

C7_Witness ==
  /\ Replied
  /\ last.sr.stream = [status |-> StatusOk, body |-> BodyResult]
  /\ last.ret.tag = "Ok"
  /\ last.ret.val.result = Some(U64(U64Of(42)))

\* C8: every send_request call that has ended issued exactly one POST and
\* handed its caller either Ok(Response) or a typed error.
C8_OnePostOneResult ==
  SendEnded => /\ last.sr.posts = 1
               /\ last.ret.tag \in {"Ok", "Err"}

\* C9: the nonce mutex is never held by a thread that is inside send_request;
\* whoever holds it is inside the critical section of build_request or
\* last_nonce, so a thread blocked in the HTTP call never keeps others from
\* taking the lock.
C9_LockNotHeldAcrossHttp ==
  /\ \A t \in Threads : pc[t] = "sr_wait" => lock # t
  /\ lock # 0 => pc[lock] \in {"br_incr", "br_ret", "ln_read"}
  /\ \A u \in Threads :
       (pc[u] = "br_lock" /\ \A t \in Threads \ {u} : pc[t] = "sr_wait")
         => ENABLED BuildRequestLock(u)

C9_Witness ==
  \E t, u \in Threads : /\ pc[t] = "sr_wait"
                        /\ pc[u] = "br_ret"
                        /\ lock = u

\* C10: the POST carries a Basic Authorization header exactly when the
\* Client's user is set, and then it holds the configured user and pass;
\* a Client without user and pass sends no Authorization header.
C10_BasicAuthIffUser ==
  \A t \in Threads :
    pc[t] = "sr_wait"
      => /\ sr[t].posts = 1
         /\ user = None => sr[t].post.headers = {}
         /\ user # None =>
              sr[t].post.headers = {[name |-> "Authorization", scheme |-> "Basic",
                                     username |-> user[1], password |-> pass]}

C10_Witness ==
  \E t \in Threads : /\ pc[t] = "sr_wait"
                     /\ user = Some("alice")
                     /\ pass = Some("secret")
                     /\ \E h \in sr[t].post.headers :
                          h.username = "alice" /\ h.password = Some("secret")

BuildReturned == last.op = "build_request" /\ last.ret.tag = "Request"
LastNonceReturned == last.op = "last_nonce" /\ last.ret.tag = "U64"

\* C11: two consecutive build_request calls with the same method and
\* parameters return Requests that are unequal and differ in the id only:
\* their method and params are equal.
C11_ConsecutiveDifferByIdOnly ==
  (BuildReturned /\ last.prev # NoBuilt /\ last.prev.args = last.args)
    => /\ last.ret.val # last.prev.req
       /\ last.ret.val.id # last.prev.req.id
       /\ last.ret.val.method = last.prev.req.method
       /\ last.ret.val.params = last.prev.req.params

C11_Witness ==
  /\ BuildReturned
  /\ last.prev.args = last.args
  /\ last.prev.req = [method |-> "test", params |-> <<U64(U64Of(7))>>, id |-> U64(U64Of(1))]
  /\ last.ret.val = [method |-> "test", params |-> <<U64(U64Of(7))>>, id |-> U64(U64Of(2))]

\* C12: last_nonce returns the value the counter has when it reads it and no
\* step of last_nonce changes the counter; however last_nonce calls are
\* interleaved, the k-th Request returned carries id k.
LastNonceStep(t) == pc[t] \in {"ln_lock", "ln_read"} \/ pc'[t] = "ln_lock"

C12_LastNonceLeavesCounter ==
  /\ [](BuildReturned => last.ret.val.id = U64(U64Of(Len(returned))))
  /\ [][\A t \in Threads :
          (LastNonceStep(t) /\ pc'[t] # pc[t])
            => /\ nonce' = nonce
               /\ pc[t] = "ln_read" => last'.ret = U64Ret(nonce)]_vars

C12_Witness ==
  /\ LastNonceReturned
  /\ last.ret = U64Ret(U64Of(1))
  /\ nonce = U64Of(1)
  /\ \E u \in Threads : pc[u] = "br_lock"

\* C13: build_request takes any name and any parameter sequence, the empty
\* one included, as they are: the Request returned has method = name, params
\* = params and id = the counter, which each call has advanced by exactly one.
C13_RequestCarriesArguments ==
  last.op = "build_request"
    => /\ last.ret = RequestRet([method |-> last.args.name, params |-> last.args.params,
                                 id |-> U64(nonce)])
       /\ nonce = U64Of(Len(returned))

C13_Witness ==
  /\ BuildReturned
  /\ last.args = [name |-> "test", params |-> <<>>]
  /\ last.ret.val = [method |-> "test", params |-> <<>>, id |-> U64(U64Of(2))]
  /\ last.prev.args.params = <<U64(U64Of(7))>>

\* C14: a 200 reply with a decodable body whose id is not the id of the
\* Request sent still makes send_request return Ok with that Response.
ReplyId == IF last.sr.stream.body = BodyResult THEN U64(U64Of(1)) ELSE U64(U64Of(9))

C14_IdMismatchIsOk ==
  (Replied /\ last.sr.stream.status = StatusOk
           /\ last.sr.stream.body \in {BodyResult, BodyError}
           /\ ReplyId # last.sr.req.id)
    => /\ last.ret.tag = "Ok"
       /\ last.ret.val.id = ReplyId

C14_Witness ==
  /\ Replied
  /\ last.sr.req.id = U64(U64Of(2))
  /\ last.sr.stream = [status |-> StatusOk, body |-> BodyResult]
  /\ last.ret.tag = "Ok"
  /\ last.ret.val.id = U64(U64Of(1))

\* C15: the counter is never reset and never decreases; it equals the number
\* of build_request increments done so far, which is the number of Requests
\* returned whenever the mutex is free (below 64-bit overflow).
Incremented == Cardinality({t \in Threads : pc[t] = "br_ret"})

C15_CounterCountsBuilds ==
  /\ [](nonce = U64Of(Len(returned) + Incremented))
  /\ [](lock = 0 => nonce = U64Of(Len(returned)))
  /\ [][nonce' = nonce \/ U64Less(nonce, nonce')]_vars

C15_Witness ==
  /\ SendReturned
  /\ nonce = U64Of(2)
  /\ Len(returned) = 2
  /\ nRead = 1

\* C16: when the counter holds the largest u64, the next build_request wraps
\* it to 0 and returns normally with id 0; it does not fail and the Client
\* stays usable.
C16_WrapsAtMax ==
  /\ ~poisoned
  /\ last.op = "build_request" => last.ret.tag = "Request"
  /\ (BuildReturned /\ Len(returned) = 1) => last.ret.val.id = U64(U64Of(0))

\* C17: ids respect real-time order. A Request carries an id larger than the
\* id of every Request returned earlier (so of every one returned before its
\* call was invoked); last_nonce returns at least the id of every Request
\* returned before it read (so before it was invoked) and at most the number
\* of build_request calls invoked by then.
C17_RealTimeOrder ==
  /\ BuildReturned =>
       \A i \in 1..(Len(returned) - 1) : U64Less(returned[i], last.ret.val.id.v)
  /\ LastNonceReturned =>
       /\ \A i \in 1..Len(returned) : U64Leq(returned[i], last.ret.val.n)
       /\ U64Leq(last.ret.val.n, U64Of(nBuild))

C17_Witness ==
  /\ LastNonceReturned
  /\ last.ret = U64Ret(U64Of(1))
  /\ Len(returned) = 1
  /\ nBuild = 2

\* C18: no step of send_request changes the Client (counter, url, user,
\* pass, mutex), whatever the outcome, and the id transmitted is the id of
\* the Request handed in, so sending a Request again transmits the same id.
SendStep == \/ \E t \in Threads : pc'[t] # pc[t] /\ (pc[t] = "sr_wait" \/ pc'[t] = "sr_wait")
            \/ last'.op = "send_request"

C18_SendLeavesClient ==
  /\ [](\A t \in Threads :
          pc[t] = "sr_wait"
            => GetMember(sr[t].post.body.members, "id") = sr[t].req.id)
  /\ [][SendStep => UNCHANGED <<cstate, url, user, pass, nonce, lock, poisoned>>]_vars

C18_Witness ==
  /\ SendReturned
  /\ last.ret.tag = "Err"
  /\ last.sr.req.id = U64(U64Of(2))
  /\ nonce = U64Of(1)
  /\ Len(returned) = 1

====
